---- MODULE Spec2Model ----
(***************************************************************************)
(* Task Manager: the task store (TaskProvider), the task domain model      *)
(* (models/Task) and the key-value store adapter (useLocalStorage) over    *)
(* the browser's localStorage.                                             *)
(*                                                                         *)
(* JavaScript values are tagged records, strings are sequences of          *)
(* one-character strings, so that trim, length and the UUID pattern are     *)
(* computed as the code computes them.                                     *)
(***************************************************************************)
EXTENDS Integers, Sequences, FiniteSets, TLC

VARIABLES
  storage,    \* window.localStorage: key -> stored item (absent, or a text)
  mounted,    \* TRUE once TaskProvider has rendered
  tasks,      \* state of useLocalStorage('tasks', [])
  filter,     \* state of useLocalStorage('filter', 'all')
  ctx,        \* contextValue handed to the presentation components
  issued,     \* number of ids generateTaskId has returned
  faults,     \* number of times the backing store has raised
  lastOp,     \* the operation that produced this state, with its input
  lastError,  \* the failure that operation raised to its caller (<<>>: none)
  returned,   \* what a function of models/Task returned to its caller
  inputValue, \* TaskForm: state of the text input
  error,      \* TaskForm: state of the error message (<<>> for '')
  uncaught    \* the failure that left a component's handler (<<>>: none)

vars ==
  <<storage, mounted, tasks, filter, ctx, issued, faults, lastOp, lastError,
    returned, inputValue, error, uncaught>>

\* what the operations of TaskProvider do not touch
view == <<returned, inputValue, error, uncaught>>

-----------------------------------------------------------------------------
(* Bounds of the model *)

MaxTasks == 2      \* addTask is explored while the collection is shorter
MaxIds == 2        \* generateTaskId is explored for this many ids
MaxFaults == 1     \* raises of the backing store explored in one behaviour
MaxCollection == 2 \* longest collection handed to validateTasksArray directly

-----------------------------------------------------------------------------
(* JavaScript values *)

Str(s) == [t |-> "string", s |-> s]
Num(n) == [t |-> "number", n |-> n]
Bool(b) == [t |-> "boolean", b |-> b]
Null == [t |-> "null"]
Undefined == [t |-> "undefined"]
Arr(a) == [t |-> "array", a |-> a]
Obj(f) == [t |-> "object", f |-> f]

\* typeof v
TypeOf(v) ==
  IF v.t \in {"null", "array", "object"} THEN "object" ELSE v.t

\* !!v
Truthy(v) ==
  CASE v.t = "undefined" -> FALSE
    [] v.t = "null" -> FALSE
    [] v.t = "boolean" -> v.b
    [] v.t = "number" -> v.n # 0
    [] v.t = "string" -> Len(v.s) > 0
    [] OTHER -> TRUE

\* v.k (v neither null nor undefined)
Get(v, k) ==
  IF v.t = "object" /\ k \in DOMAIN v.f THEN v.f[k] ELSE Undefined

\* A code unit that has no literal of its own is written by its number.
VT == "U+000B"      \* vertical tab
NBSP == "U+00A0"    \* no-break space

\* String.prototype.trim strips WhiteSpace and LineTerminator: U+0009,
\* U+000A, U+000B, U+000C, U+000D, U+0020, U+00A0, U+1680, U+2000..U+200A,
\* U+2028, U+2029, U+202F, U+205F, U+3000 and U+FEFF
WhiteSpace ==
  {"\t", "\n", VT, "\f", "\r", " ", NBSP, "U+1680",
   "U+2000", "U+2001", "U+2002", "U+2003", "U+2004", "U+2005", "U+2006",
   "U+2007", "U+2008", "U+2009", "U+200A",
   "U+2028", "U+2029", "U+202F", "U+205F", "U+3000", "U+FEFF"}

RECURSIVE TrimStart(_)
TrimStart(s) ==
  IF s # <<>> /\ Head(s) \in WhiteSpace THEN TrimStart(Tail(s)) ELSE s

RECURSIVE TrimEnd(_)
TrimEnd(s) ==
  IF s # <<>> /\ s[Len(s)] \in WhiteSpace
    THEN TrimEnd(SubSeq(s, 1, Len(s) - 1))
    ELSE s

Trim(s) == TrimEnd(TrimStart(s))

\* a string of n copies of the character c
Rep(c, n) == [i \in 1..n |-> c]

-----------------------------------------------------------------------------
(* models/Task *)

Ok(v) == [ok |-> TRUE, value |-> v]
Fail(m) == [ok |-> FALSE, message |-> m]

MaxTitleLength == 500

ErrTitleNotString == <<"Task title must be a string">>
ErrTitleEmpty == <<"Task title cannot be empty">>
ErrTitleTooLong == <<"Task title cannot exceed 500 characters">>
ErrNotAnObject == <<"Task must be an object">>
ErrMissingId == <<"Task must have a valid id">>
ErrInvalidId == <<"Task id must be a valid UUID">>
ErrCompleted == <<"Task completed status must be a boolean">>
ErrNotAnArray == <<"Tasks must be an array">>
ErrFilter == <<"Filter must be one of: all, completed, pending">>
ErrAtIndex(i, inner) == <<"Invalid task at index ", i, ": ", inner[1]>>

\* mutant: the length limit is not checked
validateTaskTitleNoLimit(title) ==
  IF TypeOf(title) # "string" THEN Fail(ErrTitleNotString)
  ELSE IF Len(Trim(title.s)) = 0 THEN Fail(ErrTitleEmpty)
  ELSE Ok(Str(Trim(title.s)))

\* mutant: a trimmed title of exactly 500 characters is refused
validateTaskTitleOffByOne(title) ==
  IF TypeOf(title) # "string" THEN Fail(ErrTitleNotString)
  ELSE LET trimmedTitle == Trim(title.s) IN
    IF Len(trimmedTitle) = 0 THEN Fail(ErrTitleEmpty)
    ELSE IF Len(trimmedTitle) >= MaxTitleLength THEN Fail(ErrTitleTooLong)
    ELSE Ok(Str(trimmedTitle))

validateTaskTitle(title) ==
  IF TypeOf(title) # "string" THEN Fail(ErrTitleNotString)
  ELSE LET trimmedTitle == Trim(title.s) IN
    IF Len(trimmedTitle) = 0 THEN Fail(ErrTitleEmpty)
    ELSE IF Len(trimmedTitle) > MaxTitleLength THEN Fail(ErrTitleTooLong)
    ELSE Ok(Str(trimmedTitle))

HexDigits ==
  {"0", "1", "2", "3", "4", "5", "6", "7", "8", "9",
   "a", "b", "c", "d", "e", "f", "A", "B", "C", "D", "E", "F"}

\* /^[0-9a-f]{8}-[0-9a-f]{4}-4[0-9a-f]{3}-[89ab][0-9a-f]{3}-[0-9a-f]{12}$/i
isValidUUID(uuid) ==
  /\ TypeOf(uuid) = "string"
  /\ Len(uuid.s) = 36
  /\ \A i \in 1..36 :
       CASE i \in {9, 14, 19, 24} -> uuid.s[i] = "-"
         [] i = 15 -> uuid.s[i] = "4"
         [] i = 20 -> uuid.s[i] \in {"8", "9", "a", "b", "A", "B"}
         [] OTHER -> uuid.s[i] \in HexDigits

\* mutant: completed is tested for truth, not for its type
validateTaskFalsy(task) ==
  IF ~Truthy(task) \/ TypeOf(task) # "object" THEN Fail(ErrNotAnObject)
  ELSE IF ~Truthy(Get(task, "id")) \/ TypeOf(Get(task, "id")) # "string"
    THEN Fail(ErrMissingId)
  ELSE IF ~isValidUUID(Get(task, "id")) THEN Fail(ErrInvalidId)
  ELSE IF ~validateTaskTitle(Get(task, "title")).ok
    THEN validateTaskTitle(Get(task, "title"))
  ELSE IF ~Truthy(Get(task, "completed")) THEN Fail(ErrCompleted)
  ELSE Ok(Bool(TRUE))

\* mutant: the title is checked before the id
validateTaskTitleFirst(task) ==
  IF ~Truthy(task) \/ TypeOf(task) # "object" THEN Fail(ErrNotAnObject)
  ELSE IF ~validateTaskTitle(Get(task, "title")).ok
    THEN validateTaskTitle(Get(task, "title"))
  ELSE IF ~Truthy(Get(task, "id")) \/ TypeOf(Get(task, "id")) # "string"
    THEN Fail(ErrMissingId)
  ELSE IF ~isValidUUID(Get(task, "id")) THEN Fail(ErrInvalidId)
  ELSE IF TypeOf(Get(task, "completed")) # "boolean" THEN Fail(ErrCompleted)
  ELSE Ok(Bool(TRUE))

validateTask(task) ==
  IF ~Truthy(task) \/ TypeOf(task) # "object" THEN Fail(ErrNotAnObject)
  ELSE IF ~Truthy(Get(task, "id")) \/ TypeOf(Get(task, "id")) # "string"
    THEN Fail(ErrMissingId)
  ELSE IF ~isValidUUID(Get(task, "id")) THEN Fail(ErrInvalidId)
  ELSE IF ~validateTaskTitle(Get(task, "title")).ok
    THEN validateTaskTitle(Get(task, "title"))
  ELSE IF TypeOf(Get(task, "completed")) # "boolean" THEN Fail(ErrCompleted)
  ELSE Ok(Bool(TRUE))

\* mutant: the index in the failure is counted from one
validateTasksArrayOneBased(ts) ==
  IF ts.t # "array" THEN Fail(ErrNotAnArray)
  ELSE LET bad == {i \in 1..Len(ts.a) : ~validateTask(ts.a[i]).ok} IN
    IF bad = {} THEN Ok(Bool(TRUE))
    ELSE LET first == CHOOSE i \in bad : \A j \in bad : i <= j IN
      Fail(ErrAtIndex(first, validateTask(ts.a[first]).message))

validateTasksArray(ts) ==
  IF ts.t # "array" THEN Fail(ErrNotAnArray)
  ELSE LET bad == {i \in 1..Len(ts.a) : ~validateTask(ts.a[i]).ok} IN
    IF bad = {} THEN Ok(Bool(TRUE))
    ELSE LET first == CHOOSE i \in bad : \A j \in bad : i <= j IN
      Fail(ErrAtIndex(first - 1, validateTask(ts.a[first]).message))

validFilters == <<Str(<<"a", "l", "l">>),
                  Str(<<"c", "o", "m", "p", "l", "e", "t", "e", "d">>),
                  Str(<<"p", "e", "n", "d", "i", "n", "g">>)>>

FilterAll == validFilters[1]
FilterCompleted == validFilters[2]
FilterPending == validFilters[3]

\* mutant: every non-empty string is accepted
validateFilterLoose(f) ==
  IF f.t = "string" /\ Len(f.s) > 0 THEN Ok(Bool(TRUE)) ELSE Fail(ErrFilter)

\* mutant: every value is accepted
validateFilterAny(f) == Ok(Bool(TRUE))

validateFilter(f) ==
  IF \E i \in 1..Len(validFilters) : validFilters[i] = f
    THEN Ok(Bool(TRUE))
    ELSE Fail(ErrFilter)

\* crypto.randomUUID(): the k-th id of a session; successive ids differ
Digit(k) == <<"0", "1", "2", "3", "4", "5", "6", "7", "8", "9">>[k + 1]

Uuid(lead, k) ==
  Str(<<lead>> \o Rep("0", 6) \o <<Digit(k)>> \o <<"-">> \o Rep("0", 4)
      \o <<"-", "4">> \o Rep("0", 3) \o <<"-", "8">> \o Rep("0", 3)
      \o <<"-">> \o Rep("0", 11) \o <<Digit(k)>>)

\* mutant: every call returns the same id
generateTaskIdFixed(k) == Uuid("a", 0)

generateTaskId(k) == Uuid("a", k)

\* mutant: the title is stored as typed, not as validated
createTaskUntrimmed(title, k) ==
  IF ~validateTaskTitle(title).ok THEN validateTaskTitle(title)
  ELSE Ok(Obj([id |-> generateTaskId(k),
               title |-> title,
               completed |-> Bool(FALSE)]))

\* mutant: the new task starts completed
createTaskDone(title, k) ==
  LET validatedTitle == validateTaskTitle(title) IN
  IF ~validatedTitle.ok THEN validatedTitle
  ELSE Ok(Obj([id |-> generateTaskId(k),
               title |-> validatedTitle.value,
               completed |-> Bool(TRUE)]))

createTask(title, k) ==
  LET validatedTitle == validateTaskTitle(title) IN
  IF ~validatedTitle.ok THEN validatedTitle
  ELSE Ok(Obj([id |-> generateTaskId(k),
               title |-> validatedTitle.value,
               completed |-> Bool(FALSE)]))

-----------------------------------------------------------------------------
(* window.localStorage and JSON *)

Keys == {"tasks", "filter"}

\* a stored item: none (getItem returns null), the JSON text of a value,
\* or a text that is no JSON text
NoItem == [p |-> "absent"]
JsonText(v) == [p |-> "json", v |-> v]
RawText(s) == [p |-> "raw", s |-> s]

\* the value JSON.stringify keeps of v: an undefined property is dropped,
\* an undefined array element becomes null
RECURSIVE ToJson(_)
ToJson(v) ==
  CASE v.t = "array" ->
         Arr([i \in 1..Len(v.a) |->
                IF v.a[i].t = "undefined" THEN Null ELSE ToJson(v.a[i])])
    [] v.t = "object" ->
         Obj([k \in {j \in DOMAIN v.f : v.f[j].t # "undefined"} |->
                ToJson(v.f[k])])
    [] OTHER -> v

\* setItem(key, JSON.stringify(v)): JSON.stringify(undefined) is undefined,
\* stored as the text undefined
JsonStringify(v) ==
  IF v.t = "undefined" THEN RawText("undefined") ELSE JsonText(ToJson(v))

JsonParse(item) ==
  IF item.p = "json" THEN Ok(item.v) ELSE Fail(<<"SyntaxError">>)

-----------------------------------------------------------------------------
(* hooks/useLocalStorage: the key-value store adapter *)

\* mutant: only an absent key gives the fallback; a raise of the backing
\* store or text that cannot be parsed leaves the read without a value
AdapterReadUnguarded(s, key, fallback, storeOk) ==
  IF ~storeOk THEN Undefined
  ELSE IF s[key] = NoItem THEN fallback
  ELSE IF JsonParse(s[key]).ok THEN JsonParse(s[key]).value
  ELSE Undefined

\* read(key, fallback); storeOk is FALSE when the backing store raises
AdapterRead(s, key, fallback, storeOk) ==
  IF ~storeOk THEN fallback
  ELSE IF s[key] = NoItem THEN fallback
  ELSE IF JsonParse(s[key]).ok THEN JsonParse(s[key]).value
  ELSE fallback

\* mutant: a write the backing store raises on removes the entry
AdapterWriteClears(s, key, value, storeOk) ==
  IF storeOk THEN [s EXCEPT ![key] = JsonStringify(value)]
  ELSE [s EXCEPT ![key] = NoItem]

\* write(key, value): the backing store after the write; a raise of the
\* backing store is swallowed and leaves the entry as it was
AdapterWrite(s, key, value, storeOk) ==
  IF storeOk THEN [s EXCEPT ![key] = JsonStringify(value)] ELSE s

WriteOutcome(wrote, storeOk) ==
  IF ~wrote THEN "none" ELSE IF storeOk THEN "ok" ELSE "failed"

-----------------------------------------------------------------------------
(* context/TaskContext: TaskProvider *)

\* mutant: the tasks hook is given a sample task as its fallback
DefaultTasksSample ==
  Arr(<<Obj([id |-> Uuid("5", 1), title |-> Str(<<"a">>),
             completed |-> Bool(FALSE)])>>)

DefaultTasks == Arr(<<>>)
DefaultFilter == FilterAll

\* mutant: the default is returned without setTasks([])
validatedTasksNoReset(t) ==
  IF validateTasksArray(t).ok
    THEN [value |-> t, reset |-> FALSE]
    ELSE [value |-> Arr(<<>>), reset |-> FALSE]

\* useMemo validatedTasks: the value returned, and whether setTasks([]) ran
validatedTasks(t) ==
  IF validateTasksArray(t).ok
    THEN [value |-> t, reset |-> FALSE]
    ELSE [value |-> DefaultTasks, reset |-> TRUE]

\* mutant: the filter is exposed as the hook holds it
validatedFilterUnchecked(f) == [value |-> f, reset |-> FALSE]

\* mutant: the default is returned without setFilterState('all')
validatedFilterNoReset(f) ==
  IF validateFilter(f).ok
    THEN [value |-> f, reset |-> FALSE]
    ELSE [value |-> FilterAll, reset |-> FALSE]

\* useMemo validatedFilter: the value returned, and whether
\* setFilterState('all') ran
validatedFilter(f) ==
  IF validateFilter(f).ok
    THEN [value |-> f, reset |-> FALSE]
    ELSE [value |-> DefaultFilter, reset |-> TRUE]

\* mutant: the 'pending' view keeps every task
filteredTasksPendingAll(vt, vf) ==
  CASE vf = FilterCompleted ->
         Arr(SelectSeq(vt.a, LAMBDA task : Truthy(Get(task, "completed"))))
    [] OTHER -> vt

\* mutant: the two filtering cases are exchanged
filteredTasksSwapped(vt, vf) ==
  CASE vf = FilterCompleted ->
         Arr(SelectSeq(vt.a, LAMBDA task : ~Truthy(Get(task, "completed"))))
    [] vf = FilterPending ->
         Arr(SelectSeq(vt.a, LAMBDA task : Truthy(Get(task, "completed"))))
    [] OTHER -> vt

\* useMemo filteredTasks
filteredTasks(vt, vf) ==
  CASE vf = FilterCompleted ->
         Arr(SelectSeq(vt.a, LAMBDA task : Truthy(Get(task, "completed"))))
    [] vf = FilterPending ->
         Arr(SelectSeq(vt.a, LAMBDA task : ~Truthy(Get(task, "completed"))))
    [] OTHER -> vt

\* mutant: one recovery path for both entries, either being invalid resets both
RenderCoupled(t, f, s, okT, okF) ==
  LET bad == validatedTasks(t).reset \/ validatedFilter(f).reset
      vt == IF bad THEN DefaultTasks ELSE t
      vf == IF bad THEN DefaultFilter ELSE f
      s1 == IF bad THEN AdapterWrite(s, "tasks", DefaultTasks, okT) ELSE s
      s2 == IF bad THEN AdapterWrite(s1, "filter", DefaultFilter, okF) ELSE s1
  IN [tasks |-> vt, filter |-> vf, storage |-> s2,
      resetTasks |-> bad, resetFilter |-> bad,
      ctx |-> [tasks |-> vt, filter |-> vf,
               filteredTasks |-> filteredTasks(vt, vf)]]

\* mutant: recovery writes back the value it loaded, not the default
RenderKeepsLoaded(t, f, s, okT, okF) ==
  LET vt == validatedTasks(t)
      vf == validatedFilter(f)
      s1 == IF vt.reset THEN AdapterWrite(s, "tasks", t, okT) ELSE s
      s2 == IF vf.reset THEN AdapterWrite(s1, "filter", f, okF) ELSE s1
  IN [tasks |-> vt.value, filter |-> vf.value, storage |-> s2,
      resetTasks |-> vt.reset, resetFilter |-> vf.reset,
      ctx |-> [tasks |-> vt.value, filter |-> vf.value,
               filteredTasks |-> filteredTasks(vt.value, vf.value)]]

\* One render of TaskProvider over the hook states t and f and the backing
\* store s: both memos, the recovery writes they make, the context value.
Render(t, f, s, okT, okF) ==
  LET vt == validatedTasks(t)
      vf == validatedFilter(f)
      s1 == IF vt.reset THEN AdapterWrite(s, "tasks", DefaultTasks, okT) ELSE s
      s2 == IF vf.reset
              THEN AdapterWrite(s1, "filter", DefaultFilter, okF) ELSE s1
  IN [tasks |-> vt.value,
      filter |-> vf.value,
      storage |-> s2,
      resetTasks |-> vt.reset,
      resetFilter |-> vf.reset,
      ctx |-> [tasks |-> vt.value,
               filter |-> vf.value,
               filteredTasks |-> filteredTasks(vt.value, vf.value)]]

NoError == <<>>

Op(name, arg, wroteT, okT, wroteF, okF) ==
  [op |-> name, arg |-> arg,
   tasksWrite |-> WriteOutcome(wroteT, okT),
   filterWrite |-> WriteOutcome(wroteF, okF)]

Raised(used, storeOk) == IF used /\ ~storeOk THEN 1 ELSE 0

\* The handler's state update t1/f1 over store s1, then the render it causes.
Commit(name, arg, t1, f1, s1, wroteT, wroteF, okT, okF, readOk) ==
  \E r \in {Render(t1, f1, s1, okT, okF)} :
  /\ tasks' = r.tasks
  /\ filter' = r.filter
  /\ storage' = r.storage
  /\ ctx' = r.ctx
  /\ mounted' = TRUE
  /\ lastError' = NoError
  /\ lastOp' = Op(name, arg, wroteT \/ r.resetTasks, okT,
                  wroteF \/ r.resetFilter, okF)
  \* a flag of a write that is not made is left TRUE
  /\ (wroteT \/ r.resetTasks) \/ okT
  /\ (wroteF \/ r.resetFilter) \/ okF
  /\ faults' = faults + Raised(TRUE, readOk)
                       + Raised(wroteT \/ r.resetTasks, okT)
                       + Raised(wroteF \/ r.resetFilter, okF)
  /\ faults' <= MaxFaults

\* The handler raised e to its caller: no state update, no render.
Raise(name, arg, e) ==
  /\ lastError' = e
  /\ lastOp' = Op(name, arg, FALSE, TRUE, FALSE, TRUE)
  /\ UNCHANGED <<storage, mounted, tasks, filter, ctx, issued, faults>>

\* TaskProvider mounts (the page is loaded, or loaded again): each hook
\* reads its own entry, the backing store raising on either read or not,
\* then the first render.  (A mount whose reads raise counts as one raise.)
Load ==
  \E readT, readF, okT, okF \in BOOLEAN :
    /\ Commit("load", Arr(<<Bool(readT), Bool(readF)>>),
              AdapterRead(storage, "tasks", DefaultTasks, readT),
              AdapterRead(storage, "filter", DefaultFilter, readF),
              storage, FALSE, FALSE, okT, okF, readT /\ readF)
    /\ UNCHANGED issued

Titles ==
  {Str(<<VT, "b", "\t">>), Str(<<" ", NBSP>>),
   Str(Rep("x", MaxTitleLength + 1)), Num(42)}

\* prevTasks => [...prevTasks, newTask]
addTaskUpdater(prevTasks, newTask) == Arr(Append(prevTasks.a, newTask))

\* (a value an action uses more than once is bound by \E over a singleton,
\* which evaluates it once)
\* mutant: every addTask saves the filter along with the collection
addTaskSavesAll(title) ==
  /\ mounted
  /\ \E newTask \in {createTask(title, issued)} :
     IF ~newTask.ok
       THEN Raise("addTask", title, newTask.message)
       ELSE /\ Len(tasks.a) < MaxTasks
            /\ issued < MaxIds
            /\ issued' = issued + 1
            /\ \E okT \in BOOLEAN,
                    t1 \in {addTaskUpdater(tasks, newTask.value)} :
                 Commit("addTask", title, t1, filter,
                        AdapterWrite(AdapterWrite(storage, "tasks", t1, okT),
                                     "filter", filter, okT),
                        TRUE, TRUE, okT, okT, TRUE)

addTask(title) ==
  /\ mounted
  /\ \E newTask \in {createTask(title, issued)} :
     IF ~newTask.ok
       THEN Raise("addTask", title, newTask.message)
       ELSE /\ Len(tasks.a) < MaxTasks
            /\ issued < MaxIds
            /\ issued' = issued + 1
            /\ \E okT \in BOOLEAN,
                    t1 \in {addTaskUpdater(tasks, newTask.value)} :
                 Commit("addTask", title, t1, filter,
                        AdapterWrite(storage, "tasks", t1, okT),
                        TRUE, FALSE, okT, TRUE, TRUE)

\* mutant: the task is marked completed instead of flipped
ToggledSetDone(task) ==
  Obj([k \in DOMAIN task.f \cup {"completed"} |->
         IF k = "completed" THEN Bool(TRUE) ELSE task.f[k]])

\* { ...task, completed: !task.completed }
Toggled(task) ==
  Obj([k \in DOMAIN task.f \cup {"completed"} |->
         IF k = "completed"
           THEN Bool(~Truthy(Get(task, "completed")))
           ELSE task.f[k]])

\* mutant: every task is flipped, whatever its id
toggleUpdaterAll(prevTasks, id) ==
  Arr([i \in 1..Len(prevTasks.a) |-> Toggled(prevTasks.a[i])])

\* prevTasks => prevTasks.map(task => task.id === id ? {...} : task)
toggleUpdater(prevTasks, id) ==
  Arr([i \in 1..Len(prevTasks.a) |->
         IF Get(prevTasks.a[i], "id") = id
           THEN Toggled(prevTasks.a[i])
           ELSE prevTasks.a[i]])

\* mutant: the collection persisted is the one from before the update
toggleTaskCompletionStale(id) ==
  /\ mounted
  /\ \E okT \in BOOLEAN, t1 \in {toggleUpdater(tasks, id)} :
       Commit("toggleTaskCompletion", id, t1, filter,
                 AdapterWrite(storage, "tasks", tasks, okT),
                 TRUE, FALSE, okT, TRUE, TRUE)
  /\ UNCHANGED issued

toggleTaskCompletion(id) ==
  /\ mounted
  /\ \E okT \in BOOLEAN, t1 \in {toggleUpdater(tasks, id)} :
       Commit("toggleTaskCompletion", id, t1, filter,
                 AdapterWrite(storage, "tasks", t1, okT),
                 TRUE, FALSE, okT, TRUE, TRUE)
  /\ UNCHANGED issued

\* mutant: the tasks with the id are the ones kept
deleteUpdaterKeeps(prevTasks, id) ==
  Arr(SelectSeq(prevTasks.a, LAMBDA task : Get(task, "id") = id))

\* prevTasks => prevTasks.filter(task => task.id !== id)
deleteUpdater(prevTasks, id) ==
  Arr(SelectSeq(prevTasks.a, LAMBDA task : Get(task, "id") # id))

\* mutant: deleting a task puts the filter back to the default
deleteTaskResetsFilter(id) ==
  /\ mounted
  /\ \E okT \in BOOLEAN, t1 \in {deleteUpdater(tasks, id)} :
       Commit("deleteTask", id, t1, DefaultFilter,
                 AdapterWrite(storage, "tasks", t1, okT),
                 TRUE, FALSE, okT, TRUE, TRUE)
  /\ UNCHANGED issued

deleteTask(id) ==
  /\ mounted
  /\ \E okT \in BOOLEAN, t1 \in {deleteUpdater(tasks, id)} :
       Commit("deleteTask", id, t1, filter,
                 AdapterWrite(storage, "tasks", t1, okT),
                 TRUE, FALSE, okT, TRUE, TRUE)
  /\ UNCHANGED issued

\* mutant: the filter hook is bound to the key of the tasks hook
setFilterSharedKey(newFilter) ==
  /\ mounted
  /\ IF ~validateFilter(newFilter).ok
       THEN Raise("setFilter", newFilter, validateFilter(newFilter).message)
       ELSE /\ \E okF \in BOOLEAN :
                 Commit("setFilter", newFilter, tasks, newFilter,
                        AdapterWrite(storage, "tasks", newFilter, okF),
                        FALSE, TRUE, TRUE, okF, TRUE)
            /\ UNCHANGED issued

setFilter(newFilter) ==
  /\ mounted
  /\ IF ~validateFilter(newFilter).ok
       THEN Raise("setFilter", newFilter, validateFilter(newFilter).message)
       ELSE /\ \E okF \in BOOLEAN :
                 Commit("setFilter", newFilter, tasks, newFilter,
                        AdapterWrite(storage, "filter", newFilter, okF),
                        FALSE, TRUE, TRUE, okF, TRUE)
            /\ UNCHANGED issued

-----------------------------------------------------------------------------
(* What localStorage may hold when the page is opened *)

StoredId(k) == Uuid("5", k)

Task(id, title, completed) ==
  Obj([id |-> id, title |-> Str(title), completed |-> Bool(completed)])

StoredTasks ==
  {NoItem,
   RawText("not json"),
   JsonText(Arr(<<>>)),
   JsonText(Arr(<<Task(StoredId(1), <<"a">>, FALSE),
                  Task(StoredId(2), <<"b">>, TRUE)>>)),
   JsonText(Arr(<<Task(StoredId(1), <<"a">>, TRUE),
                  Task(StoredId(1), <<"b">>, FALSE)>>)),
   JsonText(Arr(<<Task(StoredId(1), <<"a">>, FALSE), Null>>)),
   JsonText(Num(7))}

StoredFilters ==
  {NoItem,
   RawText("invalid-filter"),
   JsonText(FilterCompleted),
   JsonText(Str(<<"b", "o", "g", "u", "s">>))}

IdInputs ==
  {StoredId(1), generateTaskId(0), StoredId(9)}

FilterInputs ==
  {FilterAll, FilterCompleted, FilterPending,
   Str(<<"b", "o", "g", "u", "s">>)}

\* the error state of TaskForm holds a message as failures carry it; '' is
\* the empty tuple
NoMessage == <<>>

\* nothing returned yet, TaskForm as useState('') leaves it, nothing uncaught
ViewInit ==
  /\ returned = Undefined
  /\ inputValue = Str(<<>>)
  /\ error = NoMessage
  /\ uncaught = NoError

Init ==
  /\ storage \in [Keys -> StoredTasks \cup StoredFilters]
  /\ storage["tasks"] \in StoredTasks
  /\ storage["filter"] \in StoredFilters
  /\ mounted = FALSE
  /\ tasks = DefaultTasks
  /\ filter = DefaultFilter
  /\ ctx = [tasks |-> DefaultTasks, filter |-> DefaultFilter,
            filteredTasks |-> DefaultTasks]
  /\ issued = 0
  /\ faults = 0
  /\ lastOp = Op("init", Undefined, FALSE, TRUE, FALSE, TRUE)
  /\ lastError = NoError
  /\ ViewInit

Next ==
  \/ Load /\ UNCHANGED view
  \/ \E title \in Titles : addTask(title) /\ UNCHANGED view
  \/ \E id \in IdInputs : toggleTaskCompletion(id) /\ UNCHANGED view
  \/ \E id \in IdInputs : deleteTask(id) /\ UNCHANGED view
  \/ \E newFilter \in FilterInputs : setFilter(newFilter) /\ UNCHANGED view

Spec == Init /\ [][Next]_vars

\* The page opened over a persisted task whose title is 500 characters
\* followed by a space: validateTask measures the trimmed title.
PaddedTitle == Rep("x", MaxTitleLength) \o <<" ">>

StoredPadded == JsonText(Arr(<<Task(StoredId(1), PaddedTitle, FALSE)>>))

\* ... or over one whose title is a vertical tab and nothing else
StoredBlank == JsonText(Arr(<<Task(StoredId(1), <<VT>>, FALSE)>>))

InitPadded ==
  /\ storage \in [Keys -> {StoredPadded, StoredBlank} \cup StoredFilters]
  /\ storage["tasks"] \in {StoredPadded, StoredBlank}
  /\ storage["filter"] \in StoredFilters
  /\ mounted = FALSE
  /\ tasks = DefaultTasks
  /\ filter = DefaultFilter
  /\ ctx = [tasks |-> DefaultTasks, filter |-> DefaultFilter,
            filteredTasks |-> DefaultTasks]
  /\ issued = 0
  /\ faults = 0
  /\ lastOp = Op("init", Undefined, FALSE, TRUE, FALSE, TRUE)
  /\ lastError = NoError
  /\ ViewInit

SpecPadded == InitPadded /\ [][Next]_vars

\* The page opened over an empty localStorage and used with the inputs of
\* the walk-through: one title, the ids of the tasks created, two filters.
InitEmpty ==
  /\ storage = [k \in Keys |-> NoItem]
  /\ mounted = FALSE
  /\ tasks = DefaultTasks
  /\ filter = DefaultFilter
  /\ ctx = [tasks |-> DefaultTasks, filter |-> DefaultFilter,
            filteredTasks |-> DefaultTasks]
  /\ issued = 0
  /\ faults = 0
  /\ lastOp = Op("init", Undefined, FALSE, TRUE, FALSE, TRUE)
  /\ lastError = NoError
  /\ ViewInit

BuyMilkInput ==
  Str(<<" ", " ", "B", "u", "y", " ", "m", "i", "l", "k", " ", " ">>)

CreatedIds == {generateTaskId(k) : k \in 0..(MaxIds - 1)}

NextScenario ==
  \/ Load /\ UNCHANGED view
  \/ addTask(BuyMilkInput) /\ UNCHANGED view
  \/ \E id \in CreatedIds : toggleTaskCompletion(id) /\ UNCHANGED view
  \/ \E id \in CreatedIds : deleteTask(id) /\ UNCHANGED view
  \/ \E newFilter \in {FilterCompleted, FilterPending} :
       setFilter(newFilter) /\ UNCHANGED view

SpecScenario == InitEmpty /\ [][NextScenario]_vars

\* The same start with loads and addTask only, as in the integration test
\* that adds tasks over a mocked localStorage and counts its setItem calls.
\* the titles the test types, `Task ${i + 1}`, next to the rejected ones
WriteTitles ==
  Titles \cup {Str(<<"T", "a", "s", "k", " ", d>>) : d \in {"1", "2"}}

NextWrites ==
  \/ Load /\ UNCHANGED view
  \/ \E title \in WriteTitles : addTask(title) /\ UNCHANGED view

SpecWrites == InitEmpty /\ [][NextWrites]_vars

-----------------------------------------------------------------------------
(* The functions of models/Task called on their own, as its unit tests do *)

\* the call name(arg) gave r: a value returned, or a failure thrown
Call(name, arg, r) ==
  /\ lastOp' = Op(name, arg, FALSE, TRUE, FALSE, TRUE)
  /\ lastError' = IF r.ok THEN NoError ELSE r.message
  /\ returned' = IF r.ok THEN r.value ELSE Undefined
  /\ UNCHANGED <<storage, mounted, tasks, filter, ctx, issued, faults,
                 inputValue, error, uncaught>>

EmptyObject == Obj([k \in {} |-> Null])

TitleSamples ==
  {Str(<<>>), Str(<<" ", VT, NBSP>>), Str(<<"a">>), Str(<<" ", "b", "\t">>),
   Str(<<VT, "b", "U+3000">>),
   Str(Rep("x", MaxTitleLength - 1)),
   Str(Rep("x", MaxTitleLength)),
   Str(<<" ">> \o Rep("x", MaxTitleLength) \o <<"\n">>),
   Str(Rep("x", MaxTitleLength + 1)),
   Str(<<" ">> \o Rep("x", MaxTitleLength + 1)),
   Null, Undefined, Num(123), Bool(TRUE), EmptyObject, Arr(<<>>)}

IdSamples ==
  {Undefined, Str(<<>>), Num(5), Str(<<"i", "n", "v", "a", "l", "i", "d">>),
   StoredId(1)}

TaskTitleSamples ==
  {Undefined, Str(<<VT>>), Num(1), Str(<<"a">>),
   Str(Rep("x", MaxTitleLength + 1))}

CompletedSamples ==
  {Undefined, Bool(TRUE), Bool(FALSE), Str(<<"t", "r", "u", "e">>), Null}

TaskSamples ==
  {Null, Undefined, Num(0), Str(<<"t", "a", "s", "k">>), Bool(FALSE),
   Arr(<<>>), EmptyObject}
  \cup {Obj([id |-> i, title |-> t, completed |-> c]) :
          i \in IdSamples, t \in TaskTitleSamples, c \in CompletedSamples}

ElementSamples ==
  {Task(StoredId(1), <<"a">>, FALSE),
   Null,
   Task(StoredId(2), <<" ">>, TRUE)}

CollectionSamples ==
  {Null, Undefined, Str(<<"[", "]">>), Num(7), EmptyObject}
  \cup {Arr(a) : a \in UNION {[1..n -> ElementSamples] : n \in 0..MaxCollection}}

FilterSamples ==
  {FilterAll, FilterCompleted, FilterPending,
   Str(<<>>), Str(<<"A", "L", "L">>), Str(<<" ", "a", "l", "l">>),
   Str(<<"b", "o", "g", "u", "s">>),
   Null, Undefined, Num(0), Num(123), Bool(TRUE),
   Arr(<<FilterAll>>), EmptyObject}

validateTaskTitleCall ==
  \E title \in TitleSamples :
    Call("validateTaskTitle", title, validateTaskTitle(title))

validateTaskCall ==
  \E task \in TaskSamples : Call("validateTask", task, validateTask(task))

validateTasksArrayCall ==
  \E ts \in CollectionSamples :
    Call("validateTasksArray", ts, validateTasksArray(ts))

validateFilterCall ==
  \E f \in FilterSamples : Call("validateFilter", f, validateFilter(f))

NextModels ==
  \/ validateTaskTitleCall
  \/ validateTaskCall
  \/ validateTasksArrayCall
  \/ validateFilterCall

SpecModels == InitEmpty /\ [][NextModels]_vars

-----------------------------------------------------------------------------
(* components/TaskForm and components/TaskFilters *)

\* The components get their operations from the context. For TaskForm the
\* context is TaskProvider, or, as its tests render it, one whose addTask
\* throws a failure of its own.
ErrTest == <<"Test error">>
ErrNoMessage == <<"">>
ContextFailures == {ErrTest, ErrNoMessage}

Typed ==
  {Str(<<>>), Str(<<VT, " ">>), Str(<<NBSP, "b", " ">>),
   Str(Rep("x", MaxTitleLength + 1))}

\* error.message || 'Failed to add task'
MessageOr(e, fallback) == IF e[1] = "" THEN fallback ELSE e

\* handleInputChange: setInputValue(e.target.value); if (error) setError('')
handleInputChange(value) ==
  /\ mounted
  /\ inputValue' = value
  /\ error' = NoMessage
  /\ lastOp' = Op("handleInputChange", value, FALSE, TRUE, FALSE, TRUE)
  /\ lastError' = NoError
  /\ uncaught' = NoError
  /\ UNCHANGED <<storage, mounted, tasks, filter, ctx, issued, faults,
                 returned>>

\* what the catch of handleSubmit leaves after addTask threw
SubmitCaught ==
  /\ error' = MessageOr(lastError', <<"Failed to add task">>)
  /\ UNCHANGED inputValue

\* mutant: the input is cleared whether or not addTask threw
handleSubmitClears ==
  /\ mounted
  /\ uncaught' = NoError
  /\ UNCHANGED returned
  /\ \E trimmedValue \in {Trim(inputValue.s)} :
       IF trimmedValue = <<>>
         THEN /\ error' = ErrTitleEmpty
              /\ lastOp' = Op("handleSubmit", inputValue,
                              FALSE, TRUE, FALSE, TRUE)
              /\ lastError' = NoError
              /\ UNCHANGED <<storage, mounted, tasks, filter, ctx, issued,
                             faults, inputValue>>
         ELSE \/ /\ addTask(Str(trimmedValue))
                 /\ inputValue' = Str(<<>>)
                 /\ error' = IF lastError' = NoError THEN NoMessage
                             ELSE MessageOr(lastError', <<"Failed to add task">>)
              \/ \E e \in ContextFailures :
                   /\ Raise("addTask", Str(trimmedValue), e)
                   /\ inputValue' = Str(<<>>)
                   /\ error' = MessageOr(e, <<"Failed to add task">>)

\* mutant: addTask is called outside the try/catch
handleSubmitUncaught ==
  /\ mounted
  /\ UNCHANGED returned
  /\ \E trimmedValue \in {Trim(inputValue.s)} :
       IF trimmedValue = <<>>
         THEN /\ error' = ErrTitleEmpty
              /\ uncaught' = NoError
              /\ lastOp' = Op("handleSubmit", inputValue,
                              FALSE, TRUE, FALSE, TRUE)
              /\ lastError' = NoError
              /\ UNCHANGED <<storage, mounted, tasks, filter, ctx, issued,
                             faults, inputValue>>
         ELSE /\ \/ addTask(Str(trimmedValue))
                 \/ \E e \in ContextFailures :
                      Raise("addTask", Str(trimmedValue), e)
              /\ uncaught' = lastError'
              /\ IF lastError' = NoError
                   THEN inputValue' = Str(<<>>) /\ error' = NoMessage
                   ELSE UNCHANGED <<inputValue, error>>

\* handleSubmit: the empty check, then addTask(trimmedValue) inside try/catch
handleSubmit ==
  /\ mounted
  /\ uncaught' = NoError
  /\ UNCHANGED returned
  /\ \E trimmedValue \in {Trim(inputValue.s)} :
       IF trimmedValue = <<>>
         THEN /\ error' = ErrTitleEmpty
              /\ lastOp' = Op("handleSubmit", inputValue,
                              FALSE, TRUE, FALSE, TRUE)
              /\ lastError' = NoError
              /\ UNCHANGED <<storage, mounted, tasks, filter, ctx, issued,
                             faults, inputValue>>
         ELSE \/ /\ addTask(Str(trimmedValue))
                 /\ IF lastError' = NoError
                      THEN inputValue' = Str(<<>>) /\ error' = NoMessage
                      ELSE SubmitCaught
              \/ \E e \in ContextFailures :
                   /\ Raise("addTask", Str(trimmedValue), e)
                   /\ SubmitCaught

\* the keys of the three buttons
ButtonKeys == {Str(<<"a", "l", "l">>),
               Str(<<"c", "o", "m", "p", "l", "e", "t", "e", "d">>),
               Str(<<"p", "e", "n", "d", "i", "n", "g">>)}

\* handleFilterChange: setFilter(newFilter), with no try/catch around it
handleFilterChange(newFilter) ==
  /\ setFilter(newFilter)
  /\ uncaught' = lastError'
  /\ UNCHANGED <<returned, inputValue, error>>

\* TaskList renders one TaskItem for each task of the filtered view
ShownTasks == {ctx.filteredTasks.a[i] : i \in 1..Len(ctx.filteredTasks.a)}

\* handleToggleCompletion of the TaskItem of task: the checkbox
handleToggleCompletion(task) ==
  /\ toggleTaskCompletion(Get(task, "id"))
  /\ uncaught' = lastError'
  /\ UNCHANGED <<returned, inputValue, error>>

\* handleDelete of the TaskItem of task: the Delete button
handleDelete(task) ==
  /\ deleteTask(Get(task, "id"))
  /\ uncaught' = lastError'
  /\ UNCHANGED <<returned, inputValue, error>>

\* The page is loaded (again): TaskProvider mounts, and so does TaskForm,
\* whose useState('') calls start the input and the error empty.
Mount ==
  /\ Load
  /\ inputValue' = Str(<<>>)
  /\ error' = NoMessage
  /\ uncaught' = NoError
  /\ UNCHANGED returned

NextComponents ==
  \/ Mount
  \/ \E value \in Typed : handleInputChange(value)
  \/ handleSubmit
  \/ \E key \in ButtonKeys : handleFilterChange(key)
  \/ \E task \in ShownTasks : handleToggleCompletion(task)
  \/ \E task \in ShownTasks : handleDelete(task)

SpecComponents == InitEmpty /\ [][NextComponents]_vars

\* TaskForm and TaskFilters, the two components that call addTask and
\* setFilter: the page is loaded, titles are typed and submitted, the filter
\* buttons are clicked.
NextControls ==
  \/ Mount
  \/ \E value \in Typed : handleInputChange(value)
  \/ handleSubmit
  \/ \E key \in ButtonKeys : handleFilterChange(key)

SpecControls == InitEmpty /\ [][NextControls]_vars

\* TaskForm alone under a provider, as its tests render it: the page is
\* loaded, titles are typed and submitted.
NextForm ==
  \/ Mount
  \/ \E value \in Typed : handleInputChange(value)
  \/ handleSubmit

SpecForm == InitEmpty /\ [][NextForm]_vars

-----------------------------------------------------------------------------
(* Vocabulary of the properties *)

\* the tasks of a collection whose completed flag is the boolean b, in order
WithCompleted(ts, b) ==
  SelectSeq(ts.a, LAMBDA task : task.f.completed = Bool(b))

\* the ids of the tasks of a collection
IdsOf(ts) == {ts.a[i].f.id : i \in 1..Len(ts.a)}

\* the step is a mount of TaskProvider
LoadStep == lastOp'.op = "load"

\* what the two hooks read from the backing store in that mount
LoadedTasks ==
  AdapterRead(storage, "tasks", DefaultTasks, lastOp'.arg.a[1].b)
LoadedFilter ==
  AdapterRead(storage, "filter", DefaultFilter, lastOp'.arg.a[2].b)

\* a load in which the backing store raised on neither read / on both
BothRead == Arr(<<Bool(TRUE), Bool(TRUE)>>)
NeitherRead == Arr(<<Bool(FALSE), Bool(FALSE)>>)

\* the place of each key among the reads of a load
ReadOf(key) == IF key = "tasks" THEN 1 ELSE 2

EmptyText == JsonText(Arr(<<>>))
AllText == JsonText(FilterAll)

-----------------------------------------------------------------------------
(* C1 *)

\* C1: once the provider has rendered, the exposed tasks and filter are the
\* current ones and the exposed filtered view is the whole collection under
\* 'all', the completed tasks in order under 'completed', the tasks that are
\* not completed in order under 'pending'.
C1_FilteredViewIsCurrent ==
  mounted =>
    /\ ctx.tasks = tasks
    /\ ctx.filter = filter
    /\ ctx.filter \in {FilterAll, FilterCompleted, FilterPending}
    /\ ctx.filter = FilterAll => ctx.filteredTasks = tasks
    /\ ctx.filter = FilterCompleted =>
         ctx.filteredTasks = Arr(WithCompleted(tasks, TRUE))
    /\ ctx.filter = FilterPending =>
         ctx.filteredTasks = Arr(WithCompleted(tasks, FALSE))

\* a toggle has just moved a task into the completed view, which now holds
\* one of the two tasks
C1_Witness ==
  /\ mounted
  /\ lastOp.op = "toggleTaskCompletion"
  /\ ctx.filter = FilterCompleted
  /\ Len(tasks.a) = 2
  /\ Len(ctx.filteredTasks.a) = 1
  /\ ctx.filteredTasks.a[1].f.id = lastOp.arg

-----------------------------------------------------------------------------
(* C2 *)

\* C2 as claimed: a mount whose loaded collection fails validateTasksArray
\* exposes [], leaves the persisted 'tasks' entry holding [] and raises
\* nothing.
C2_AsClaimed ==
  [][(LoadStep /\ ~validateTasksArray(LoadedTasks).ok) =>
       /\ ctx'.tasks = DefaultTasks
       /\ storage'["tasks"] = EmptyText
       /\ lastError' = NoError]_vars

\* C2 amended: a mount whose loaded collection fails validateTasksArray
\* exposes [] and raises nothing; it writes [] to the 'tasks' entry, which
\* then holds [] unless the backing store raised on that write, in which
\* case the entry is left as it was.
C2_RecoversTasks ==
  [][(LoadStep /\ ~validateTasksArray(LoadedTasks).ok) =>
       /\ ctx'.tasks = DefaultTasks
       /\ tasks' = DefaultTasks
       /\ lastError' = NoError
       /\ IF lastOp'.tasksWrite = "failed"
            THEN storage'["tasks"] = storage["tasks"]
            ELSE storage'["tasks"] = EmptyText]_vars

\* a mount has found an invalid element in the stored array and reset the
\* entry
C2_Witness ==
  /\ lastOp.op = "load"
  /\ lastOp.tasksWrite = "ok"
  /\ storage["tasks"] = EmptyText
  /\ ctx.tasks = DefaultTasks

-----------------------------------------------------------------------------
(* C3 *)

\* C3 as claimed: a mount whose loaded filter fails validateFilter exposes
\* 'all', leaves the persisted 'filter' entry holding 'all' and raises
\* nothing.
C3_AsClaimed ==
  [][(LoadStep /\ ~validateFilter(LoadedFilter).ok) =>
       /\ ctx'.filter = FilterAll
       /\ storage'["filter"] = AllText
       /\ lastError' = NoError]_vars

\* C3 amended: a mount whose loaded filter fails validateFilter exposes
\* 'all' and raises nothing; it writes 'all' to the 'filter' entry, which
\* then holds 'all' unless the backing store raised on that write, in which
\* case the entry is left as it was.
C3_RecoversFilter ==
  [][(LoadStep /\ ~validateFilter(LoadedFilter).ok) =>
       /\ ctx'.filter = FilterAll
       /\ filter' = FilterAll
       /\ lastError' = NoError
       /\ IF lastOp'.filterWrite = "failed"
            THEN storage'["filter"] = storage["filter"]
            ELSE storage'["filter"] = AllText]_vars

\* a mount has read the filter "bogus" and reset the entry, the stored
\* tasks being kept
C3_Witness ==
  /\ lastOp.op = "load"
  /\ lastOp.filterWrite = "ok"
  /\ storage["filter"] = AllText
  /\ ctx.filter = FilterAll
  /\ Len(ctx.tasks.a) = 2

-----------------------------------------------------------------------------
(* C4 *)

\* C4: in a mount where the loaded filter is invalid and the loaded
\* collection valid, the loaded collection is exposed and the 'tasks' entry
\* is neither written nor changed; in a mount where the loaded collection is
\* invalid and the loaded filter valid, the loaded filter is exposed and the
\* 'filter' entry is neither written nor changed.
C4_RecoveryPathsIndependent ==
  [][LoadStep =>
       /\ (validateTasksArray(LoadedTasks).ok
             /\ ~validateFilter(LoadedFilter).ok) =>
            /\ ctx'.tasks = LoadedTasks
            /\ tasks' = LoadedTasks
            /\ storage'["tasks"] = storage["tasks"]
            /\ lastOp'.tasksWrite = "none"
       /\ (~validateTasksArray(LoadedTasks).ok
             /\ validateFilter(LoadedFilter).ok) =>
            /\ ctx'.filter = LoadedFilter
            /\ filter' = LoadedFilter
            /\ storage'["filter"] = storage["filter"]
            /\ lastOp'.filterWrite = "none"]_vars

\* a mount has reset the filter only, two stored tasks being exposed
C4_Witness ==
  /\ lastOp.op = "load"
  /\ lastOp.filterWrite # "none"
  /\ lastOp.tasksWrite = "none"
  /\ Len(ctx.tasks.a) = 2
  /\ storage["tasks"] = JsonStringify(ctx.tasks)

\* a mount has reset the tasks only, the stored filter being exposed
C4_WitnessTasksOnly ==
  /\ lastOp.op = "load"
  /\ lastOp.tasksWrite # "none"
  /\ lastOp.filterWrite = "none"
  /\ ctx.filter = FilterCompleted
  /\ storage["filter"] = JsonText(FilterCompleted)

-----------------------------------------------------------------------------
(* C5 *)

\* what a mount would read, the backing store not raising
WouldLoadTasks == AdapterRead(storage, "tasks", DefaultTasks, TRUE)
WouldLoadFilter == AdapterRead(storage, "filter", DefaultFilter, TRUE)

\* C5 as claimed: after a mount that recovered an entry, a further mount
\* reads the default for that entry.
C5_AsClaimed ==
  [][LoadStep =>
       /\ ~validateTasksArray(LoadedTasks).ok => WouldLoadTasks' = DefaultTasks
       /\ ~validateFilter(LoadedFilter).ok =>
            WouldLoadFilter' = DefaultFilter]_vars

\* C5 amended: after a mount that recovered an entry, the backing store not
\* having raised on the recovery write, a further mount reads the default
\* for that entry, which needs no recovery.
C5_SecondLoadReadsDefault ==
  [][LoadStep =>
       /\ (~validateTasksArray(LoadedTasks).ok
             /\ lastOp'.tasksWrite # "failed") =>
            /\ WouldLoadTasks' = DefaultTasks
            /\ ~validatedTasks(WouldLoadTasks').reset
       /\ (~validateFilter(LoadedFilter).ok
             /\ lastOp'.filterWrite # "failed") =>
            /\ WouldLoadFilter' = DefaultFilter
            /\ ~validatedFilter(WouldLoadFilter').reset]_vars

\* a mount has recovered both entries; a further mount is possible
C5_Witness ==
  /\ lastOp.op = "load"
  /\ lastOp.tasksWrite = "ok"
  /\ lastOp.filterWrite = "ok"
  /\ WouldLoadTasks = DefaultTasks
  /\ WouldLoadFilter = DefaultFilter

-----------------------------------------------------------------------------
(* C6 *)

\* the tasks whose ids this session generated stand in the order in which
\* their ids were generated
GeneratedInCallOrder ==
  \A i, j \in 1..Len(tasks.a) : \A k, l \in 0..(MaxIds - 1) :
    (/\ i < j
     /\ tasks.a[i].f.id = generateTaskId(k)
     /\ tasks.a[j].f.id = generateTaskId(l)) => k < l

\* C6: an addTask(title) that raises nothing leaves the collection one task
\* longer, the tasks it held unchanged at their positions, and the new last
\* task has just the fields id, title, completed, with the trimmed input as
\* title, completed false and a UUID that no task of the collection had;
\* the tasks added by successive calls stand in call order.
C6_AddTaskAppends ==
  [][(lastOp'.op = "addTask" /\ lastError' = NoError) =>
       /\ Len(tasks'.a) = Len(tasks.a) + 1
       /\ SubSeq(tasks'.a, 1, Len(tasks.a)) = tasks.a
       /\ DOMAIN tasks'.a[Len(tasks'.a)].f = {"id", "title", "completed"}
       /\ tasks'.a[Len(tasks'.a)].f.title = Str(Trim(lastOp'.arg.s))
       /\ tasks'.a[Len(tasks'.a)].f.completed = Bool(FALSE)
       /\ isValidUUID(tasks'.a[Len(tasks'.a)].f.id)
       /\ tasks'.a[Len(tasks'.a)].f.id \notin IdsOf(tasks)
       /\ ctx'.tasks = tasks'
       /\ GeneratedInCallOrder']_vars

\* two calls of addTask with an untrimmed title have succeeded, one after
\* the other
C6_Witness ==
  /\ lastOp.op = "addTask"
  /\ lastError = NoError
  /\ lastOp.arg = Str(<<VT, "b", "\t">>)
  /\ Len(tasks.a) = 2
  /\ tasks.a[1].f.id = generateTaskId(0)
  /\ tasks.a[2].f.id = generateTaskId(1)
  /\ tasks.a[2].f.title = Str(<<"b">>)

-----------------------------------------------------------------------------
(* C7 *)

\* the failure a title is rejected with: not a string, empty after
\* trimming, longer than 500 characters after trimming (<<>>: accepted)
TitleRejection(v) ==
  IF v.t # "string" THEN ErrTitleNotString
  ELSE IF Len(Trim(v.s)) = 0 THEN ErrTitleEmpty
  ELSE IF Len(Trim(v.s)) > 500 THEN ErrTitleTooLong
  ELSE NoError

\* C7: an addTask(title) whose title is rejected raises that rejection to
\* its caller and leaves the collection, the exposed context and the
\* backing store as they were, nothing being written.
C7_RejectedAddChangesNothing ==
  [][(lastOp'.op = "addTask" /\ TitleRejection(lastOp'.arg) # NoError) =>
       /\ lastError' = TitleRejection(lastOp'.arg)
       /\ tasks' = tasks
       /\ ctx' = ctx
       /\ storage' = storage
       /\ lastOp'.tasksWrite = "none"]_vars

\* addTask has rejected a title of 501 characters, the collection holding
\* two tasks
C7_Witness ==
  /\ lastOp.op = "addTask"
  /\ lastOp.arg.t = "string"
  /\ Len(lastOp.arg.s) = 501
  /\ lastError = ErrTitleTooLong
  /\ Len(tasks.a) = 2
  /\ storage["tasks"] = JsonStringify(tasks)

-----------------------------------------------------------------------------
(* C8 *)

\* the task with its completed flag negated and nothing else changed
Flipped(task) ==
  Obj([task.f EXCEPT !.completed = Bool(~task.f.completed.b)])

\* C8: toggleTaskCompletion(id) raises nothing, keeps the length and the
\* order of the collection, replaces each task whose id is id by the same
\* task with completed negated and leaves every other task as it was; when
\* no task has the id the collection is unchanged.
C8_ToggleFlipsOnlyThatTask ==
  [][lastOp'.op = "toggleTaskCompletion" =>
       /\ lastError' = NoError
       /\ Len(tasks'.a) = Len(tasks.a)
       /\ \A i \in 1..Len(tasks.a) :
            IF tasks.a[i].f.id = lastOp'.arg
              THEN tasks'.a[i] = Flipped(tasks.a[i])
              ELSE tasks'.a[i] = tasks.a[i]
       /\ lastOp'.arg \notin IdsOf(tasks) => tasks' = tasks]_vars

\* a toggle has completed the first of two tasks with different ids
C8_Witness ==
  /\ lastOp.op = "toggleTaskCompletion"
  /\ Len(tasks.a) = 2
  /\ tasks.a[1].f.id = lastOp.arg
  /\ tasks.a[2].f.id # lastOp.arg
  /\ tasks.a[1].f.completed = Bool(TRUE)

\* a toggle has named an id that no task of a non-empty collection has
C8_WitnessNoMatch ==
  /\ lastOp.op = "toggleTaskCompletion"
  /\ Len(tasks.a) > 0
  /\ lastOp.arg \notin IdsOf(tasks)

-----------------------------------------------------------------------------
(* C9 *)

\* C9: after toggleTaskCompletion(id), the update a second call with the
\* same id makes gives back the collection the first call started from,
\* each task with its original completed value.
C9_ToggleTwiceRestores ==
  [][lastOp'.op = "toggleTaskCompletion" =>
       toggleUpdater(tasks', lastOp'.arg) = tasks]_vars

\* a toggle has completed a task that was pending; a second one would make
\* it pending again
C9_Witness ==
  /\ lastOp.op = "toggleTaskCompletion"
  /\ \E i \in 1..Len(tasks.a) :
       /\ tasks.a[i].f.id = lastOp.arg
       /\ tasks.a[i].f.completed = Bool(TRUE)
       /\ toggleUpdater(tasks, lastOp.arg).a[i].f.completed = Bool(FALSE)

-----------------------------------------------------------------------------
(* C10 *)

\* the tasks of a collection whose id is not id, in order
Without(ts, id) == SelectSeq(ts.a, LAMBDA task : task.f.id # id)

\* C10: deleteTask(id) raises nothing and leaves exactly the tasks whose id
\* is not id, unchanged and in their order; no task with the id remains;
\* when no task has the id the collection is unchanged.
C10_DeleteRemovesOnlyThatId ==
  [][lastOp'.op = "deleteTask" =>
       /\ lastError' = NoError
       /\ tasks'.a = Without(tasks, lastOp'.arg)
       /\ lastOp'.arg \notin IdsOf(tasks')
       /\ Len(tasks'.a) <= Len(tasks.a)
       /\ lastOp'.arg \notin IdsOf(tasks) => tasks' = tasks]_vars

\* the first of two added tasks has been deleted, the second is left
C10_Witness ==
  /\ lastOp.op = "deleteTask"
  /\ lastOp.arg = generateTaskId(0)
  /\ issued = 2
  /\ Len(tasks.a) = 1
  /\ tasks.a[1].f.id = generateTaskId(1)

\* a delete has named an id that no task of a two-task collection has
C10_WitnessNoMatch ==
  /\ lastOp.op = "deleteTask"
  /\ lastOp.arg = StoredId(9)
  /\ Len(tasks.a) = 2

-----------------------------------------------------------------------------
(* C11 *)

\* the three filter values, written out
AcceptedFilters ==
  {Str(<<"a", "l", "l">>),
   Str(<<"c", "o", "m", "p", "l", "e", "t", "e", "d">>),
   Str(<<"p", "e", "n", "d", "i", "n", "g">>)}

\* a setFilter(newFilter) with a value that is none of the three raises the
\* filter failure and leaves the filter, in memory and persisted, as it was
SetFilterRejects ==
  (lastOp'.op = "setFilter" /\ lastOp'.arg \notin AcceptedFilters) =>
    /\ lastError' = ErrFilter
    /\ filter' = filter
    /\ ctx' = ctx
    /\ storage' = storage

\* C11 as claimed: setFilter with a value that is none of the three raises
\* the filter failure and changes nothing; with one of the three it raises
\* nothing, makes the value the current filter and the persisted 'filter'
\* entry holds it.
C11_AsClaimed ==
  [][/\ SetFilterRejects
     /\ (lastOp'.op = "setFilter" /\ lastOp'.arg \in AcceptedFilters) =>
          /\ lastError' = NoError
          /\ filter' = lastOp'.arg
          /\ ctx'.filter = lastOp'.arg
          /\ storage'["filter"] = JsonText(lastOp'.arg)]_vars

\* C11 amended: setFilter with a value that is none of the three raises the
\* filter failure and changes nothing; with one of the three it raises
\* nothing, makes the value the current filter and writes it to the
\* persisted 'filter' entry, which then holds it unless the backing store
\* raised on that write, in which case the entry is left as it was.
C11_SetFilterValidates ==
  [][/\ SetFilterRejects
     /\ (lastOp'.op = "setFilter" /\ lastOp'.arg \in AcceptedFilters) =>
          /\ lastError' = NoError
          /\ filter' = lastOp'.arg
          /\ ctx'.filter = lastOp'.arg
          /\ lastOp'.filterWrite # "none"
          /\ IF lastOp'.filterWrite = "failed"
               THEN storage'["filter"] = storage["filter"]
               ELSE storage'["filter"] = JsonText(lastOp'.arg)]_vars

\* setFilter has rejected "bogus" after 'pending' had been set and persisted
C11_Witness ==
  /\ lastOp.op = "setFilter"
  /\ lastOp.arg \notin AcceptedFilters
  /\ lastError = ErrFilter
  /\ filter = FilterPending
  /\ storage["filter"] = JsonText(FilterPending)

-----------------------------------------------------------------------------
(* C12 *)

TaskOps == {"addTask", "toggleTaskCompletion", "deleteTask"}

\* the last operation completed, and the backing store accepted its write of
\* the 'tasks' entry / of the 'filter' entry
TasksWriteAccepted ==
  lastOp.op \in TaskOps /\ lastError = NoError /\ lastOp.tasksWrite = "ok"

FilterWriteAccepted ==
  lastOp.op = "setFilter" /\ lastError = NoError /\ lastOp.filterWrite = "ok"

\* the last operation was a mutating one, it completed, and the backing store
\* accepted the write it made
WriteAccepted == TasksWriteAccepted \/ FilterWriteAccepted

\* C12 as claimed: whenever a mutating operation has completed and the
\* backing store accepted the write, the persisted 'tasks' entry
\* deserializes to exactly the in-memory task collection and the persisted
\* 'filter' entry to exactly the in-memory filter.
C12_AsClaimed ==
  WriteAccepted =>
    /\ JsonParse(storage["tasks"]).ok
    /\ JsonParse(storage["tasks"]).value = tasks
    /\ JsonParse(storage["filter"]).ok
    /\ JsonParse(storage["filter"]).value = filter

\* C12: once addTask, toggleTaskCompletion or deleteTask has completed and
\* the backing store accepted its write, the persisted 'tasks' entry
\* deserializes to exactly the in-memory task collection; once setFilter has
\* completed and the backing store accepted its write, the persisted 'filter'
\* entry deserializes to exactly the in-memory filter. This holds in the
\* state the operation leaves, before any next operation.
C12_PersistedMirrorsMemory ==
  /\ TasksWriteAccepted =>
       /\ JsonParse(storage["tasks"]).ok
       /\ JsonParse(storage["tasks"]).value = tasks
       /\ JsonParse(storage["tasks"]).value = ctx.tasks
  /\ FilterWriteAccepted =>
       /\ JsonParse(storage["filter"]).ok
       /\ JsonParse(storage["filter"]).value = filter
       /\ JsonParse(storage["filter"]).value = ctx.filter

\* a toggle has flipped a stored task and the entry holds the whole
\* two-task collection with the flip
C12_Witness ==
  /\ TasksWriteAccepted
  /\ lastOp.op = "toggleTaskCompletion"
  /\ Len(tasks.a) = 2
  /\ WithCompleted(tasks, TRUE) = tasks.a
  /\ storage["tasks"] = JsonText(tasks)

\* setFilter('pending') has been persisted
C12_WitnessFilter ==
  /\ FilterWriteAccepted
  /\ filter = FilterPending
  /\ storage["filter"] = JsonText(FilterPending)

-----------------------------------------------------------------------------
(* C13 *)

\* a string of the form xxxxxxxx-xxxx-4xxx-yxxx-xxxxxxxxxxxx
UuidShaped(v) ==
  /\ v.t = "string"
  /\ Len(v.s) = 36
  /\ \A i \in {9, 14, 19, 24} : v.s[i] = "-"
  /\ v.s[15] = "4"
  /\ v.s[20] \in {"8", "9", "a", "b", "A", "B"}
  /\ \A i \in (1..36) \ {9, 14, 15, 19, 20, 24} :
       v.s[i] \in {"0", "1", "2", "3", "4", "5", "6", "7", "8", "9",
                   "a", "b", "c", "d", "e", "f",
                   "A", "B", "C", "D", "E", "F"}

\* a valid task: an object with a UUID-shaped id, a string title of 1 to 500
\* characters once trimmed, and a boolean completed
ValidTask(task) ==
  /\ task.t = "object"
  /\ {"id", "title", "completed"} \subseteq DOMAIN task.f
  /\ UuidShaped(task.f.id)
  /\ task.f.title.t = "string"
  /\ Len(Trim(task.f.title.s)) \in 1..500
  /\ task.f.completed.t = "boolean"

ValidCollection(c) ==
  c.t = "array" /\ \A i \in 1..Len(c.a) : ValidTask(c.a[i])

\* the 'tasks' entry is what persisting some valid collection leaves
PersistedValid ==
  /\ storage["tasks"].p = "json"
  /\ ValidCollection(storage["tasks"].v)
  /\ storage["tasks"] = JsonStringify(storage["tasks"].v)

\* C13: when the 'tasks' entry is what persisting a valid collection leaves,
\* a load that reads the backing store yields a collection equal to the one
\* persisted, task by task in the same order, exposes it, and triggers no
\* recovery reset: nothing is written to the entry.
C13_RoundTrip ==
  [][(LoadStep /\ lastOp'.arg.a[1].b /\ PersistedValid) =>
       /\ Len(tasks'.a) = Len(storage["tasks"].v.a)
       /\ \A i \in 1..Len(tasks'.a) : tasks'.a[i] = storage["tasks"].v.a[i]
       /\ ctx'.tasks = storage["tasks"].v
       /\ lastOp'.tasksWrite = "none"
       /\ storage'["tasks"] = storage["tasks"]]_vars

\* a load has brought back, in their order, two tasks that addTask created
\* and persisted
C13_Witness ==
  /\ lastOp.op = "load"
  /\ lastOp.arg = BothRead
  /\ lastOp.tasksWrite = "none"
  /\ Len(tasks.a) = 2
  /\ tasks.a[1].f.id = generateTaskId(0)
  /\ tasks.a[2].f.id = generateTaskId(1)
  /\ storage["tasks"] = JsonStringify(tasks)

-----------------------------------------------------------------------------
(* C14 *)

\* the read of key in a load step has nothing to deserialize: the backing
\* store raises, the key is absent, or its text is not a serialization
NothingToRead(key) ==
  \/ ~lastOp'.arg.a[ReadOf(key)].b
  \/ storage[key] = NoItem
  \/ storage[key].p = "raw"

\* C14: a load raises nothing. A hook whose read finds the key absent, finds
\* text that cannot be deserialized, or meets a raise of the backing store
\* gets its fallback ([] for 'tasks', 'all' for 'filter') unchanged: the
\* fallback is what the store holds and exposes, and being valid it causes
\* no recovery write. Otherwise the hook gets the deserialized value: a valid
\* one is what the store holds and exposes, an invalid one is replaced by
\* the recovery reset.
C14_ReadNeverFails ==
  [][LoadStep =>
       /\ lastError' = NoError
       /\ NothingToRead("tasks") =>
            tasks' = Arr(<<>>) /\ ctx'.tasks = Arr(<<>>)
                               /\ lastOp'.tasksWrite = "none"
       /\ NothingToRead("filter") =>
            filter' = Str(<<"a", "l", "l">>)
              /\ ctx'.filter = Str(<<"a", "l", "l">>)
              /\ lastOp'.filterWrite = "none"
       /\ ~NothingToRead("tasks") =>
            IF ValidCollection(storage["tasks"].v)
              THEN tasks' = storage["tasks"].v /\ lastOp'.tasksWrite = "none"
              ELSE tasks' = Arr(<<>>) /\ lastOp'.tasksWrite # "none"
       /\ ~NothingToRead("filter") =>
            IF storage["filter"].v \in AcceptedFilters
              THEN filter' = storage["filter"].v
                     /\ lastOp'.filterWrite = "none"
              ELSE filter' = Str(<<"a", "l", "l">>)
                     /\ lastOp'.filterWrite # "none"]_vars

\* a load over a backing store that raised on the reads: valid stored tasks
\* and a valid stored filter are there, the fallbacks are what is exposed
C14_Witness ==
  /\ lastOp.op = "load"
  /\ lastOp.arg = NeitherRead
  /\ storage["tasks"].p = "json"
  /\ ValidCollection(storage["tasks"].v)
  /\ Len(storage["tasks"].v.a) = 2
  /\ storage["filter"] = JsonText(FilterCompleted)
  /\ ctx.tasks = Arr(<<>>)
  /\ ctx.filter = FilterAll
  /\ lastOp.tasksWrite = "none"
  /\ lastOp.filterWrite = "none"

\* a load over a backing store that raised on the read of 'tasks' only: the
\* collection is the fallback, the filter is the persisted one
C14_WitnessOneRead ==
  /\ lastOp.op = "load"
  /\ lastOp.arg = Arr(<<Bool(FALSE), Bool(TRUE)>>)
  /\ storage["tasks"].p = "json"
  /\ ValidCollection(storage["tasks"].v)
  /\ Len(storage["tasks"].v.a) = 2
  /\ storage["filter"] = JsonText(FilterCompleted)
  /\ ctx.tasks = Arr(<<>>)
  /\ ctx.filter = FilterCompleted

\* a load over text that cannot be deserialized, under both keys
C14_WitnessUnparsable ==
  /\ lastOp.op = "load"
  /\ lastOp.arg = BothRead
  /\ storage["tasks"] = RawText("not json")
  /\ storage["filter"] = RawText("invalid-filter")
  /\ ctx.tasks = Arr(<<>>)
  /\ ctx.filter = FilterAll

-----------------------------------------------------------------------------
(* C15 *)

\* the step is an operation whose write met a raise of the backing store
TasksWriteRaised ==
  lastOp'.op \in TaskOps /\ lastOp'.tasksWrite = "failed"

FilterWriteRaised ==
  lastOp'.op = "setFilter" /\ lastOp'.filterWrite = "failed"

\* C15: when the backing store raises during the write of an operation,
\* nothing is raised to the caller and the in-memory value still becomes the
\* new value (the collection with the task appended, flipped or removed, the
\* filter that was set), which is also what is exposed; the backing store is
\* left with its previous content under both keys.
C15_WriteFailureSwallowed ==
  [][/\ TasksWriteRaised =>
          /\ lastError' = NoError
          /\ storage' = storage
          /\ ctx'.tasks = tasks'
          /\ lastOp'.op = "addTask" =>
               /\ Len(tasks'.a) = Len(tasks.a) + 1
               /\ SubSeq(tasks'.a, 1, Len(tasks.a)) = tasks.a
               /\ tasks'.a[Len(tasks'.a)].f.title = Str(Trim(lastOp'.arg.s))
          /\ lastOp'.op = "toggleTaskCompletion" =>
               /\ Len(tasks'.a) = Len(tasks.a)
               /\ \A i \in 1..Len(tasks.a) :
                    tasks'.a[i] = IF tasks.a[i].f.id = lastOp'.arg
                                    THEN Flipped(tasks.a[i])
                                    ELSE tasks.a[i]
          /\ lastOp'.op = "deleteTask" =>
               tasks'.a = Without(tasks, lastOp'.arg)
     /\ FilterWriteRaised =>
          /\ lastError' = NoError
          /\ storage' = storage
          /\ filter' = lastOp'.arg
          /\ ctx'.filter = lastOp'.arg]_vars

\* deleteTask has removed a task in memory while the backing store raised:
\* the entry still holds both stored tasks
C15_Witness ==
  /\ lastOp.op = "deleteTask"
  /\ lastOp.tasksWrite = "failed"
  /\ lastError = NoError
  /\ Len(tasks.a) = 1
  /\ storage["tasks"].p = "json"
  /\ Len(storage["tasks"].v.a) = 2
  /\ ctx.tasks = tasks

\* setFilter('pending') took effect in memory while the backing store raised
C15_WitnessFilter ==
  /\ lastOp.op = "setFilter"
  /\ lastOp.filterWrite = "failed"
  /\ filter = FilterPending
  /\ storage["filter"] = JsonText(FilterCompleted)

-----------------------------------------------------------------------------
(* C16 *)

\* C16: the hook bound to 'tasks' and the hook bound to 'filter' do not
\* interfere, in any order of their writes: a step in which addTask,
\* toggleTaskCompletion or deleteTask writes through the tasks hook (accepted
\* by the backing store or not) changes neither the in-memory filter nor the
\* persisted 'filter' entry, and a step in which setFilter writes through
\* the filter hook changes neither the in-memory collection nor the
\* persisted 'tasks' entry.
C16_KeysIndependent ==
  [][/\ (lastOp'.op \in TaskOps /\ lastOp'.tasksWrite # "none") =>
          /\ filter' = filter
          /\ ctx'.filter = ctx.filter
          /\ storage'["filter"] = storage["filter"]
          /\ lastOp'.filterWrite = "none"
     /\ (lastOp'.op = "setFilter" /\ lastOp'.filterWrite # "none") =>
          /\ tasks' = tasks
          /\ ctx'.tasks = ctx.tasks
          /\ storage'["tasks"] = storage["tasks"]
          /\ lastOp'.tasksWrite = "none"]_vars

\* writes through both hooks have been made, the filter's last: the
\* persisted collection still has the task addTask created, the persisted
\* filter is the one just set
C16_Witness ==
  /\ lastOp.op = "setFilter"
  /\ lastOp.filterWrite = "ok"
  /\ storage["filter"] = JsonText(FilterPending)
  /\ storage["tasks"].p = "json"
  /\ storage["tasks"].v = tasks
  /\ Len(tasks.a) > 0
  /\ tasks.a[Len(tasks.a)].f.id = generateTaskId(0)

-----------------------------------------------------------------------------
(* C17 *)

\* C17: a load in which the 'tasks' entry holds text that cannot be
\* deserialized, such as "not json", raises nothing and mounts the provider
\* with the default collection: the collection held and exposed is empty,
\* so is the filtered view, and the exposed filter is one of the three.
C17_UnparsableTasksLoadEmpty ==
  [][(LoadStep /\ storage["tasks"].p = "raw") =>
       /\ lastError' = NoError
       /\ mounted'
       /\ tasks' = Arr(<<>>)
       /\ ctx'.tasks = Arr(<<>>)
       /\ ctx'.filteredTasks = Arr(<<>>)
       /\ ctx'.filter \in AcceptedFilters]_vars

\* the provider has mounted over 'tasks' = "not json", read without a raise
\* of the backing store, and exposes the empty collection
C17_Witness ==
  /\ lastOp.op = "load"
  /\ lastOp.arg = BothRead
  /\ storage["tasks"] = RawText("not json")
  /\ mounted
  /\ lastError = NoError
  /\ ctx.tasks = Arr(<<>>)
  /\ ctx.filteredTasks = Arr(<<>>)

-----------------------------------------------------------------------------
(* C18 *)

\* no two tasks of the collection have the same id
UniqueIds(ts) ==
  \A i, j \in 1..Len(ts.a) : i # j => ts.a[i].f.id # ts.a[j].f.id

\* C18 as claimed: in every reachable state no two tasks of the collection,
\* as held and as exposed, share an id.
C18_AsClaimed == UniqueIds(tasks) /\ UniqueIds(ctx.tasks)

\* C18 amended: ids are unique as far as the store creates them. addTask
\* gives the new task an id that no task of the collection has, and
\* addTask, toggleTaskCompletion, deleteTask and setFilter leave a collection
\* whose ids are unique with unique ids. A load does not check the ids for
\* uniqueness: it exposes a valid persisted collection as it is, so the
\* loaded collection repeats an id exactly when the persisted one does.
C18_StoreKeepsIdsUnique ==
  [][/\ (lastOp'.op = "addTask" /\ lastError' = NoError) =>
          tasks'.a[Len(tasks'.a)].f.id \notin IdsOf(tasks)
     /\ (lastOp'.op \in TaskOps \cup {"setFilter"} /\ UniqueIds(tasks)) =>
          UniqueIds(tasks') /\ UniqueIds(ctx'.tasks)
     /\ (LoadStep /\ lastOp'.arg.a[1].b /\ PersistedValid) =>
          (UniqueIds(tasks') <=> UniqueIds(storage["tasks"].v))]_vars

\* addTask has put a second task next to one it created before, the two
\* ids different
C18_Witness ==
  /\ lastOp.op = "addTask"
  /\ lastError = NoError
  /\ Len(tasks.a) = 2
  /\ tasks.a[1].f.id = generateTaskId(0)
  /\ tasks.a[2].f.id = generateTaskId(1)
  /\ UniqueIds(ctx.tasks)

-----------------------------------------------------------------------------
(* C19 *)

\* a well-formed task: a UUID-shaped id, a string title that is non-empty
\* after trimming and has at most 500 characters, a boolean completed
WellFormedTask(task) ==
  /\ task.t = "object"
  /\ {"id", "title", "completed"} \subseteq DOMAIN task.f
  /\ UuidShaped(task.f.id)
  /\ task.f.title.t = "string"
  /\ Len(Trim(task.f.title.s)) > 0
  /\ Len(task.f.title.s) <= 500
  /\ task.f.completed.t = "boolean"

\* C19: every task of the exposed collection is well-formed (UUID-shaped
\* id, title non-empty after trimming and of at most 500 characters, boolean
\* completed), after any sequence of loads, addTask, toggleTaskCompletion
\* and deleteTask.
C19_ExposedTasksWellFormed ==
  \A i \in 1..Len(ctx.tasks.a) : WellFormedTask(ctx.tasks.a[i])

-----------------------------------------------------------------------------
(* C20 *)

\* C20: in every reachable state the exposed active filter is exactly one
\* of 'all', 'completed', 'pending', whatever the 'filter' entry held when
\* the page was loaded and whatever values were passed to setFilter.
C20_ExposedFilterValid == ctx.filter \in AcceptedFilters

\* the persisted filter was "bogus" and still is (the recovery write met a
\* raise of the backing store), and setFilter has just been passed "bogus"
\* too: the exposed filter is 'all'
C20_Witness ==
  /\ mounted
  /\ lastOp.op = "setFilter"
  /\ lastOp.arg = Str(<<"b", "o", "g", "u", "s">>)
  /\ storage["filter"] = JsonText(Str(<<"b", "o", "g", "u", "s">>))
  /\ ctx.filter = FilterAll

-----------------------------------------------------------------------------
(* C21 *)

BuyMilk == Str(<<"B", "u", "y", " ", "m", "i", "l", "k">>)

\* the collection is exactly one task titled "Buy milk" with this flag
OneBuyMilk(ts, done) ==
  /\ Len(ts.a) = 1
  /\ ts.a[1].f.title = BuyMilk
  /\ ts.a[1].f.completed = Bool(done)

\* C21: the walk-through from an empty store, step by step. addTask of
\* "  Buy milk  " on the empty collection gives a one-task collection with
\* title "Buy milk" and completed false; toggleTaskCompletion of that id
\* makes completed true and keeps id and title; with that collection
\* setFilter('completed') makes the filtered view that one task and
\* setFilter('pending') makes it []; deleteTask of that id makes the
\* collection []. No step raises.
C21_Scenario ==
  [][/\ (lastOp'.op = "addTask" /\ tasks = Arr(<<>>)) =>
          /\ lastError' = NoError
          /\ OneBuyMilk(tasks', FALSE)
          /\ ctx'.tasks = tasks'
     /\ (/\ lastOp'.op = "toggleTaskCompletion"
         /\ OneBuyMilk(tasks, FALSE)
         /\ lastOp'.arg = tasks.a[1].f.id) =>
          /\ lastError' = NoError
          /\ OneBuyMilk(tasks', TRUE)
          /\ tasks'.a[1].f.id = tasks.a[1].f.id
          /\ ctx'.tasks = tasks'
     /\ (/\ lastOp'.op = "setFilter"
         /\ OneBuyMilk(tasks, TRUE)
         /\ lastOp'.arg = Str(<<"c", "o", "m", "p", "l", "e", "t", "e", "d">>)) =>
          /\ lastError' = NoError
          /\ ctx'.filteredTasks = tasks
     /\ (/\ lastOp'.op = "setFilter"
         /\ OneBuyMilk(tasks, TRUE)
         /\ lastOp'.arg = Str(<<"p", "e", "n", "d", "i", "n", "g">>)) =>
          /\ lastError' = NoError
          /\ ctx'.filteredTasks = Arr(<<>>)
     /\ (/\ lastOp'.op = "deleteTask"
         /\ Len(tasks.a) = 1
         /\ lastOp'.arg = tasks.a[1].f.id) =>
          /\ lastError' = NoError
          /\ tasks' = Arr(<<>>)
          /\ ctx'.tasks = Arr(<<>>)]_vars

\* the end of the walk-through: the only task ever created has been
\* deleted while the filter was 'pending', and the store is empty again
C21_Witness ==
  /\ lastOp.op = "deleteTask"
  /\ lastOp.arg = generateTaskId(0)
  /\ issued = 1
  /\ filter = FilterPending
  /\ tasks = Arr(<<>>)
  /\ storage["tasks"] = JsonText(Arr(<<>>))
  /\ storage["filter"] = JsonText(FilterPending)

\* midway: the one task has been completed and the view under 'pending'
\* is empty
C21_WitnessPending ==
  /\ lastOp.op = "setFilter"
  /\ lastOp.arg = FilterPending
  /\ OneBuyMilk(tasks, TRUE)
  /\ ctx.filteredTasks = Arr(<<>>)

-----------------------------------------------------------------------------
(* C22 *)

\* C22: validateTaskTitle(title) throws 'must be a string' when title is not
\* a string; otherwise throws 'cannot be empty' when the trimmed string has
\* length 0; otherwise throws 'cannot exceed 500 characters' when the
\* trimmed length exceeds 500; otherwise returns the trimmed string. A
\* trimmed length of exactly 500 succeeds and one of 501 fails.
C22_ValidateTitle ==
  lastOp.op = "validateTaskTitle" =>
    /\ lastError = (IF lastOp.arg.t # "string"
                      THEN <<"Task title must be a string">>
                    ELSE IF Len(Trim(lastOp.arg.s)) = 0
                      THEN <<"Task title cannot be empty">>
                    ELSE IF Len(Trim(lastOp.arg.s)) > 500
                      THEN <<"Task title cannot exceed 500 characters">>
                    ELSE <<>>)
    /\ returned = (IF lastError = <<>>
                     THEN Str(Trim(lastOp.arg.s)) ELSE Undefined)
    /\ (lastOp.arg.t = "string" /\ Len(Trim(lastOp.arg.s)) = 500) =>
         lastError = <<>> /\ Len(returned.s) = 500
    /\ (lastOp.arg.t = "string" /\ Len(Trim(lastOp.arg.s)) = 501) =>
         lastError = <<"Task title cannot exceed 500 characters">>

\* a title of 502 characters, 500 once trimmed, has been accepted and
\* returned trimmed
C22_Witness ==
  /\ lastOp.op = "validateTaskTitle"
  /\ lastOp.arg.t = "string"
  /\ Len(lastOp.arg.s) = 502
  /\ lastError = NoError
  /\ returned = Str(Rep("x", 500))

\* a title of 501 characters after trimming has been refused
C22_WitnessTooLong ==
  /\ lastOp.op = "validateTaskTitle"
  /\ lastOp.arg.t = "string"
  /\ Len(Trim(lastOp.arg.s)) = 501
  /\ lastError = ErrTitleTooLong

-----------------------------------------------------------------------------
(* C23 *)

\* the field k of a candidate that is an object or an array (undefined when
\* it has none)
Field(c, k) == IF c.t = "object" /\ k \in DOMAIN c.f THEN c.f[k] ELSE Undefined

\* the checks after the id checks, in their order: the title failures, then
\* the completed flag (<<>>: all pass)
TitleThenCompleted(c) ==
  IF TitleRejection(Field(c, "title")) # <<>>
    THEN TitleRejection(Field(c, "title"))
  ELSE IF Field(c, "completed").t # "boolean"
    THEN <<"Task completed status must be a boolean">>
  ELSE <<>>

\* the first failing check as the claim lists them: not an object (null or
\* not of type object; an array is of type object), id absent or not a
\* string, id not UUID-shaped, title, completed
FirstFailureAsClaimed(c) ==
  IF c.t \notin {"object", "array"} THEN <<"Task must be an object">>
  ELSE IF Field(c, "id").t # "string" THEN <<"Task must have a valid id">>
  ELSE IF ~UuidShaped(Field(c, "id")) THEN <<"Task id must be a valid UUID">>
  ELSE TitleThenCompleted(c)

\* the same with the empty string counted as a missing id
FirstFailure(c) ==
  IF c.t \notin {"object", "array"} THEN <<"Task must be an object">>
  ELSE IF Field(c, "id").t # "string" \/ Field(c, "id") = Str(<<>>)
    THEN <<"Task must have a valid id">>
  ELSE IF ~UuidShaped(Field(c, "id")) THEN <<"Task id must be a valid UUID">>
  ELSE TitleThenCompleted(c)

\* C23 as claimed: validateTask(candidate) throws the first failing check in
\* the order not an object, id absent or not a string, id not UUID-shaped,
\* the title failures, completed not a boolean, and returns true only when
\* all pass.
C23_AsClaimed ==
  lastOp.op = "validateTask" =>
    /\ lastError = FirstFailureAsClaimed(lastOp.arg)
    /\ returned = (IF lastError = <<>> THEN Bool(TRUE) ELSE Undefined)

\* C23 amended: the same order, with the missing-id failure thrown also for
\* an id that is the empty string (any falsy id), not the invalid-id one.
C23_ValidateTaskOrder ==
  lastOp.op = "validateTask" =>
    /\ lastError = FirstFailure(lastOp.arg)
    /\ returned = (IF lastError = <<>> THEN Bool(TRUE) ELSE Undefined)

\* a candidate whose id, title and completed are all wrong has been refused
\* for its id
C23_Witness ==
  /\ lastOp.op = "validateTask"
  /\ Field(lastOp.arg, "id") = Str(<<"i", "n", "v", "a", "l", "i", "d">>)
  /\ Field(lastOp.arg, "title") = Num(1)
  /\ Field(lastOp.arg, "completed") = Null
  /\ lastError = ErrInvalidId

\* a candidate with the empty string as id has been refused as without id
C23_WitnessEmptyId ==
  /\ lastOp.op = "validateTask"
  /\ Field(lastOp.arg, "id") = Str(<<>>)
  /\ lastError = ErrMissingId

-----------------------------------------------------------------------------
(* C24 *)

\* the positions (from 1) of the elements of a sequence that are refused
Refused(a) == {i \in 1..Len(a) : FirstFailure(a[i]) # <<>>}

\* C24: validateTasksArray(candidates) throws 'must be an array' when the
\* input is not an array; otherwise, when some element is refused, it throws
\* a failure made of the zero-based index of the first refused element and
\* that element's own failure; it returns true exactly when every element
\* is accepted, the empty array included.
C24_ValidateCollection ==
  lastOp.op = "validateTasksArray" =>
    IF lastOp.arg.t # "array"
      THEN lastError = <<"Tasks must be an array">> /\ returned = Undefined
    ELSE IF Refused(lastOp.arg.a) = {}
      THEN lastError = <<>> /\ returned = Bool(TRUE)
    ELSE \E i \in Refused(lastOp.arg.a) :
           /\ \A j \in Refused(lastOp.arg.a) : i <= j
           /\ lastError = <<"Invalid task at index ", i - 1, ": ",
                            FirstFailure(lastOp.arg.a[i])[1]>>
           /\ returned = Undefined

\* a valid task followed by one with a blank title has been refused at
\* index 1 for the title
C24_Witness ==
  /\ lastOp.op = "validateTasksArray"
  /\ lastOp.arg.t = "array"
  /\ Len(lastOp.arg.a) = 2
  /\ FirstFailure(lastOp.arg.a[1]) = <<>>
  /\ lastError = <<"Invalid task at index ", 1, ": ",
                   "Task title cannot be empty">>

\* the empty array has been accepted
C24_WitnessEmpty ==
  /\ lastOp.op = "validateTasksArray"
  /\ lastOp.arg = Arr(<<>>)
  /\ lastError = NoError
  /\ returned = Bool(TRUE)

-----------------------------------------------------------------------------
(* C25 *)

\* C25: validateFilter(value) returns true exactly when value is one of the
\* strings 'all', 'completed', 'pending'; for every other value (the empty
\* string, other strings, null, undefined, numbers, booleans, arrays,
\* objects) it throws the filter failure, which names the three values.
C25_ValidateFilter ==
  lastOp.op = "validateFilter" =>
    IF lastOp.arg \in AcceptedFilters
      THEN lastError = <<>> /\ returned = Bool(TRUE)
      ELSE /\ lastError = <<"Filter must be one of: all, completed, pending">>
           /\ returned = Undefined

\* a string that differs from 'all' only by its case has been refused
C25_Witness ==
  /\ lastOp.op = "validateFilter"
  /\ lastOp.arg = Str(<<"A", "L", "L">>)
  /\ lastError = ErrFilter

\* 'pending' has been accepted
C25_WitnessAccepted ==
  /\ lastOp.op = "validateFilter"
  /\ lastOp.arg = FilterPending
  /\ lastError = NoError
  /\ returned = Bool(TRUE)

-----------------------------------------------------------------------------
(* C26 *)

\* C26: every failure that addTask or setFilter throws is caught by the
\* component that made the call and displayed: after a call that threw, no
\* failure has left the component's handler, and the failure thrown by
\* addTask is the message TaskForm shows.  The calls of setFilter the filter
\* buttons make throw nothing, so that no failure of setFilter is there to
\* leave TaskFilters.
C26_FailuresCaughtAndShown ==
  /\ (lastOp.op \in {"addTask", "setFilter"} /\ lastError # NoError) =>
       /\ uncaught = NoError
       /\ lastOp.op = "addTask" =>
            error = (IF lastError[1] = "" THEN <<"Failed to add task">>
                     ELSE lastError)
  /\ lastOp.op = "setFilter" => lastError = NoError /\ uncaught = NoError

\* the addTask of the context has thrown 'Test error' on a submit: the
\* form shows it and nothing has left the handler
C26_Witness ==
  /\ lastOp.op = "addTask"
  /\ lastError = <<"Test error">>
  /\ error = <<"Test error">>
  /\ uncaught = NoError

\* the 'Completed' button has been clicked after a refused submit: setFilter
\* has thrown nothing
C26_WitnessFilter ==
  /\ lastOp.op = "setFilter"
  /\ lastOp.arg = FilterCompleted
  /\ filter = FilterCompleted
  /\ error = ErrTitleTooLong
  /\ lastError = NoError
  /\ uncaught = NoError

-----------------------------------------------------------------------------
(* C28 *)

\* C28: the submit of TaskForm. When the trimmed input is empty it shows
\* 'Task title cannot be empty', keeps the input and does not call addTask
\* (the store is untouched); otherwise it calls addTask with the trimmed
\* input. When addTask throws, the typed input is kept and the message of
\* the failure is shown ('Failed to add task' for a failure without one);
\* when addTask succeeds, the input and the error are both cleared. An input
\* change sets the input to the typed value and clears the error. Nothing
\* leaves these handlers uncaught.
C28_SubmitHandling ==
  [][/\ lastOp'.op = "handleSubmit" =>
          /\ Trim(inputValue.s) = <<>>
          /\ error' = <<"Task title cannot be empty">>
          /\ inputValue' = inputValue
          /\ tasks' = tasks /\ storage' = storage /\ ctx' = ctx
          /\ uncaught' = NoError
     /\ lastOp'.op = "addTask" =>
          /\ Trim(inputValue.s) # <<>>
          /\ lastOp'.arg = Str(Trim(inputValue.s))
          /\ uncaught' = NoError
          /\ IF lastError' = NoError
               THEN /\ inputValue' = Str(<<>>)
                    /\ error' = <<>>
                    /\ Len(tasks'.a) = Len(tasks.a) + 1
               ELSE /\ inputValue' = inputValue
                    /\ error' = (IF lastError'[1] = ""
                                   THEN <<"Failed to add task">>
                                   ELSE lastError')
                    /\ tasks' = tasks
     /\ lastOp'.op = "handleInputChange" =>
          /\ inputValue' = lastOp'.arg
          /\ error' = <<>>
          /\ uncaught' = NoError]_vars

\* addTask has refused the 501 characters typed: they are still in the
\* input and the refusal is shown
C28_Witness ==
  /\ lastOp.op = "addTask"
  /\ lastError = ErrTitleTooLong
  /\ inputValue = Str(Rep("x", 501))
  /\ error = ErrTitleTooLong

\* a submit has added the task typed with surrounding blanks and cleared the
\* input and an error shown before
C28_WitnessCleared ==
  /\ lastOp.op = "addTask"
  /\ lastError = NoError
  /\ lastOp.arg = Str(<<"b">>)
  /\ inputValue = Str(<<>>)
  /\ error = <<>>
  /\ Len(tasks.a) = 2

\* a submit of blanks has shown the empty-title message without a call
C28_WitnessEmpty ==
  /\ lastOp.op = "handleSubmit"
  /\ inputValue = Str(<<VT, " ">>)
  /\ error = ErrTitleEmpty
  /\ tasks = Arr(<<>>)

-----------------------------------------------------------------------------
(* C27 *)

\* the number of calls of localStorage.setItem a step has made: one for
\* each entry it wrote, accepted by the backing store or raised on
SetItemCalled(outcome) == IF outcome = "none" THEN 0 ELSE 1

StepSetItemCalls ==
  SetItemCalled(lastOp'.tasksWrite) + SetItemCalled(lastOp'.filterWrite)

\* C27: starting from an empty localStorage, a load calls setItem not at
\* all, an addTask that raises nothing calls it exactly once, for the key
\* 'tasks' and not for 'filter', and an addTask that raises calls it not at
\* all.  Every step advances the number of ids taken, which is the number of
\* successful addTask calls, by the number of setItem calls it makes: both
\* start at 0, so that after n successful addTask calls setItem has been
\* called exactly n times.  The 'filter' key stays absent.
C27_OneWritePerAdd ==
  [][/\ LoadStep => StepSetItemCalls = 0
     /\ (lastOp'.op = "addTask" /\ lastError' = NoError) =>
          /\ StepSetItemCalls = 1
          /\ lastOp'.tasksWrite # "none"
          /\ lastOp'.filterWrite = "none"
     /\ (lastOp'.op = "addTask" /\ lastError' # NoError) =>
          StepSetItemCalls = 0
     /\ issued' = issued + StepSetItemCalls
     /\ storage'["filter"] = NoItem]_vars

\* two tasks have been added, the second with a call of setItem for 'tasks'
\* that the backing store accepted: two ids are taken and both tasks are in
\* the entry
C27_Witness ==
  /\ lastOp.op = "addTask"
  /\ lastError = NoError
  /\ lastOp.tasksWrite = "ok"
  /\ lastOp.filterWrite = "none"
  /\ Len(tasks.a) = 2
  /\ issued = 2
  /\ storage["tasks"] = JsonText(tasks)
  /\ storage["filter"] = NoItem

\* the page has been loaded again over the two tasks without a call
C27_WitnessReload ==
  /\ lastOp.op = "load"
  /\ lastOp.tasksWrite = "none"
  /\ lastOp.filterWrite = "none"
  /\ Len(tasks.a) = 2
  /\ issued = 2

-----------------------------------------------------------------------------
(* C29 *)

\* the tasks of a view
InView(v) == {v.a[i] : i \in 1..Len(v.a)}

\* C29: for the collection the provider holds, the views under 'completed'
\* and under 'pending' partition it: no task is in both, every task of the
\* collection is in exactly one of them, neither holds a task that is not
\* in the collection, and their lengths sum to the length of the view
\* under 'all'.
C29_ViewsPartition ==
  mounted =>
    LET done == filteredTasks(tasks, FilterCompleted)
        todo == filteredTasks(tasks, FilterPending)
        every == filteredTasks(tasks, FilterAll)
    IN /\ InView(done) \cap InView(todo) = {}
       /\ \A i \in 1..Len(tasks.a) :
            (tasks.a[i] \in InView(done)) # (tasks.a[i] \in InView(todo))
       /\ InView(done) \cup InView(todo) = InView(tasks)
       /\ Len(done.a) + Len(todo.a) = Len(every.a)

\* a collection of one completed and one pending task, so that both views
\* are non-empty
C29_Witness ==
  /\ mounted
  /\ Len(tasks.a) = 2
  /\ Len(filteredTasks(tasks, FilterCompleted).a) = 1
  /\ Len(filteredTasks(tasks, FilterPending).a) = 1

-----------------------------------------------------------------------------
(* C30 *)

\* C30: tasks and filter are independent state.  Every step of setFilter,
\* whether it sets the filter or raises for a rejected value, and whether
\* or not the backing store accepts its write, leaves the collection held
\* and the persisted 'tasks' entry as they were; every step of addTask,
\* toggleTaskCompletion or deleteTask, raising or not, leaves the filter
\* held and the persisted 'filter' entry as they were.
C30_TasksAndFilterIndependent ==
  [][/\ lastOp'.op = "setFilter" =>
          /\ tasks' = tasks
          /\ storage'["tasks"] = storage["tasks"]
     /\ lastOp'.op \in TaskOps =>
          /\ filter' = filter
          /\ storage'["filter"] = storage["filter"]]_vars

\* setFilter has raised for a rejected value while the provider holds a
\* persisted task
C30_Witness ==
  /\ lastOp.op = "setFilter"
  /\ lastError # NoError
  /\ Len(tasks.a) > 0
  /\ storage["tasks"] = JsonText(tasks)

\* a task has been deleted while the filter held and persisted is
\* 'completed'
C30_WitnessDelete ==
  /\ lastOp.op = "deleteTask"
  /\ lastOp.tasksWrite = "ok"
  /\ filter = FilterCompleted
  /\ storage["filter"] = JsonText(FilterCompleted)

\* setFilter has set the filter while the provider holds a persisted task
C30_WitnessSet ==
  /\ lastOp.op = "setFilter"
  /\ lastError = NoError
  /\ filter = FilterPending
  /\ Len(tasks.a) = 2
  /\ storage["tasks"] = JsonText(tasks)

====
